---- MODULE Spec2Model ----
(***************************************************************************)
(* Model of convert.py: the four translation-mapping builders, the catalog *)
(* writer update_item_translation and the translation loop of main.        *)
(*                                                                         *)
(* Strings are sequences of one-character strings, so that split('_'),     *)
(* the substring test '_shop' in item_name and concatenation are computed  *)
(* as the code computes them.  The text a document stores under a key is   *)
(* the locale followed by the key, so that every entry of every document   *)
(* has a text of its own.                                                  *)
(***************************************************************************)
EXTENDS Integers, Sequences, FiniteSets, TLC

VARIABLES
    db,         \* the connection's view of the tables: table name -> set of rows
    committed,  \* the tables as of the last connection.commit()
    files,      \* locale -> family -> localization document (or a missing file)
    ret,        \* outcome of the last direct call of a mapping builder
    upd,        \* the last direct call of update_item_translation
    pc,         \* position of the caller, or of main in its translation loop
    ri,         \* main: index of region in SUPPORTED_REGIONS
    li,         \* main: index of language in SUPPORTED_LANGUAGES
    mappings,   \* main: the mappings m, n, o, p of this pass, less the items written
    log         \* main: the passes completed and the commits made, in order

vars == <<db, committed, files, ret, upd, pc, ri, li, mappings, log>>

----------------------------------------------------------------------------
(* Bounds of the model *)

\* the largest number of rows the catalog holds, over both regions
MaxRows == 2

----------------------------------------------------------------------------
(* Strings *)

EmptyStr == <<>>
Space == <<" ">>
SuffixName == <<"_", "n", "a", "m", "e">>
SuffixShopName == <<"_", "s", "h", "o", "p", "_", "n", "a", "m", "e">>
ShopMarker == <<"_", "s", "h", "o", "p">>
ArmorPrefix == <<"u", "i", "_", "a", "r", "m", "o", "r", "_">>

\* sub in s
Contains(s, sub) ==
    \E i \in 0..(Len(s) - Len(sub)) : SubSeq(s, i + 1, i + Len(sub)) = sub

\* s.split('_')[0]
SplitFirst(s) ==
    IF \E i \in 1..Len(s) : s[i] = "_"
    THEN LET first == CHOOSE i \in 1..Len(s) :
                          /\ s[i] = "_"
                          /\ \A j \in 1..(i - 1) : s[j] # "_"
         IN  SubSeq(s, 1, first - 1)
    ELSE s

----------------------------------------------------------------------------
(* Selectors *)

SUPPORTED_LANGUAGES == <<"en", "cn">>
SUPPORTED_REGIONS == <<"eu", "ru">>

Languages == {SUPPORTED_LANGUAGES[i] : i \in 1..Len(SUPPORTED_LANGUAGES)}
Regions == {SUPPORTED_REGIONS[i] : i \in 1..Len(SUPPORTED_REGIONS)}

\* selectors a caller may pass: the supported ones and one unsupported each
CallLocales == Languages \cup {"fr"}
CallRegions == Regions \cup {"us"}
Backends == {"sqlite3", "psql"}

Families == {"text_weapons", "text_armors"}

----------------------------------------------------------------------------
(* Localization documents *)

NoEntries == <<>>

\* the text a locale's document stores under a key
Value(locale, key) == <<locale>> \o key

\* ET.parse(locale + '/' + family + '.xml'): the file must exist
ParseOk(locale, family) == files[locale][family].exists
Parse(locale, family) == files[locale][family].entries

\* xml_root.find('.//entry[@key="..."]') is not None
Found(doc, key) == key \in DOMAIN doc
\* list(lookup_result)[1].attrib['value']
EntryValue(doc, key) == doc[key]

----------------------------------------------------------------------------
(* Catalog *)

Kinds == {"weapon", "camouflage", "appearance", "equipment", "booster"}
TranslatedKinds == {"weapon", "camouflage", "appearance", "equipment"}
Tables == {"items", "items_ru"}

\* the table a supported region selects
TableOf(region) == IF region = "eu" THEN "items" ELSE "items_ru"

\* cursor.execute('SELECT * FROM <table> WHERE kind = <kind>'); cursor.fetchall()
Fetch(region, kind) == {r \in db[TableOf(region)] : r.kind = kind}

\* the row of a fetch that the dictionary keeps for an entity_id
RowOf(rows, entity_id) == CHOOSE r \in rows : r.entity_id = entity_id

EntityIdsOf(rows) == {r.entity_id : r \in rows}

----------------------------------------------------------------------------
(* Name resolution, one row at a time.  Each resolver yields the list     *)
(* stored in the mapping and the keys it looked up, in order.             *)

get_weapon_name_by_shortened_key(doc, key) ==
    IF ~Found(doc, key \o SuffixShopName)
    THEN EmptyStr
    ELSE EntryValue(doc, key \o SuffixShopName)

\* mutant: a miss of the base-weapon key makes the whole resolution a miss
CamouflageEntryBaseMissAborts(doc, item_name) ==
    LET item_weapon_name == SplitFirst(item_name)
        lookup == item_name \o SuffixName
    IN  IF ~Found(doc, lookup) \/ ~Found(doc, item_weapon_name \o SuffixShopName)
        THEN [value |-> <<item_name, EmptyStr, EmptyStr>>,
              keys  |-> <<lookup>>]
        ELSE [value |-> <<item_name,
                          EntryValue(doc, item_weapon_name \o SuffixShopName)
                              \o Space \o EntryValue(doc, lookup)>>,
              keys  |-> <<lookup, item_weapon_name \o SuffixShopName>>]

\* mutant: a miss has the two fields the other builders give a miss
CamouflageEntryTwoFieldMiss(doc, item_name) ==
    LET item_weapon_name == SplitFirst(item_name)
        lookup == item_name \o SuffixName
    IN  IF ~Found(doc, lookup)
        THEN [value |-> <<item_name, EmptyStr>>,
              keys  |-> <<lookup>>]
        ELSE [value |-> <<item_name,
                          get_weapon_name_by_shortened_key(doc, item_weapon_name)
                              \o Space \o EntryValue(doc, lookup)>>,
              keys  |-> <<lookup, item_weapon_name \o SuffixShopName>>]

CamouflageEntry(doc, item_name) ==
    LET item_weapon_name == SplitFirst(item_name)
        lookup == item_name \o SuffixName
    IN  IF ~Found(doc, lookup)
        THEN [value |-> <<item_name, EmptyStr, EmptyStr>>,
              keys  |-> <<lookup>>]
        ELSE [value |-> <<item_name,
                          get_weapon_name_by_shortened_key(doc, item_weapon_name)
                              \o Space \o EntryValue(doc, lookup)>>,
              keys  |-> <<lookup, item_weapon_name \o SuffixShopName>>]

WeaponKey(item_name) ==
    IF Contains(item_name, ShopMarker)
    THEN item_name \o SuffixName
    ELSE item_name \o SuffixShopName

\* mutant: a miss falls back to the other key form
WeaponEntryFallback(doc, item_name) ==
    LET lookup == WeaponKey(item_name)
        other == IF Contains(item_name, ShopMarker)
                 THEN item_name \o SuffixShopName
                 ELSE item_name \o SuffixName
    IN  IF Found(doc, lookup)
        THEN [value |-> <<item_name, EntryValue(doc, lookup)>>, keys |-> <<lookup>>]
        ELSE IF Found(doc, other)
        THEN [value |-> <<item_name, EntryValue(doc, other)>>, keys |-> <<lookup, other>>]
        ELSE [value |-> <<item_name, EmptyStr>>, keys |-> <<lookup, other>>]

WeaponEntry(doc, item_name) ==
    LET lookup == WeaponKey(item_name)
    IN  IF ~Found(doc, lookup)
        THEN [value |-> <<item_name, EmptyStr>>, keys |-> <<lookup>>]
        ELSE [value |-> <<item_name, EntryValue(doc, lookup)>>, keys |-> <<lookup>>]

BodySkinEntry(doc, item_name) ==
    LET lookup == ArmorPrefix \o item_name \o SuffixName
    IN  IF ~Found(doc, lookup)
        THEN [value |-> <<item_name, EmptyStr>>, keys |-> <<lookup>>]
        ELSE [value |-> <<item_name, EntryValue(doc, lookup)>>, keys |-> <<lookup>>]

\* mutant: the gear key lacks the "ui_armor_" prefix
GearEntryNoPrefix(doc, item_name) ==
    LET lookup == item_name \o SuffixName
    IN  IF ~Found(doc, lookup)
        THEN [value |-> <<item_name, EmptyStr>>, keys |-> <<lookup>>]
        ELSE [value |-> <<item_name, EntryValue(doc, lookup)>>, keys |-> <<lookup>>]

GearEntry(doc, item_name) ==
    LET lookup == ArmorPrefix \o item_name \o SuffixName
    IN  IF ~Found(doc, lookup)
        THEN [value |-> <<item_name, EmptyStr>>, keys |-> <<lookup>>]
        ELSE [value |-> <<item_name, EntryValue(doc, lookup)>>, keys |-> <<lookup>>]

----------------------------------------------------------------------------
(* The mapping builders.  A call ends in one of                            *)
(*   "returned"             a mapping is returned                          *)
(*   "NotImplementedError"  the unsupported-selector error                 *)
(*   "ParseError"           ET.parse raised on a missing file              *)
(*   "ProgrammingError"     fetchall() on a psycopg2 cursor that executed  *)
(*                          no query                                       *)
(* and counts the documents it parsed and the queries it executed.         *)

EmptyMapping == <<>>

Outcome(fn, locale, region, outcome, mapping, lookups, parses, fetches) ==
    [fn |-> fn, locale |-> locale, region |-> region, outcome |-> outcome,
     mapping |-> mapping, lookups |-> lookups,
     parses |-> parses, fetches |-> fetches]

Raised(fn, locale, region, error, parses, fetches) ==
    Outcome(fn, locale, region, error, EmptyMapping, EmptyMapping, parses, fetches)

get_camouflage_translation_mapping(backend, locale, region) ==
    IF locale \notin Languages \/ region \notin Regions
    THEN Raised("camouflage", locale, region, "NotImplementedError", 0, 0)
    ELSE IF ~ParseOk(locale, "text_weapons")
    THEN Raised("camouflage", locale, region, "ParseError", 1, 0)
    ELSE LET doc == Parse(locale, "text_weapons")
             fetched == Fetch(region, "camouflage")
         IN  Outcome("camouflage", locale, region, "returned",
                 [e \in EntityIdsOf(fetched) |->
                     CamouflageEntry(doc, RowOf(fetched, e).item_id).value],
                 [e \in EntityIdsOf(fetched) |->
                     CamouflageEntry(doc, RowOf(fetched, e).item_id).keys],
                 1, 1)

get_weapon_translation_mapping(backend, locale, region) ==
    IF locale \notin Languages \/ region \notin Regions
    THEN Raised("weapon", locale, region, "NotImplementedError", 0, 0)
    ELSE IF ~ParseOk(locale, "text_weapons")
    THEN Raised("weapon", locale, region, "ParseError", 1, 0)
    ELSE LET doc == Parse(locale, "text_weapons")
             fetched == Fetch(region, "weapon")
         IN  Outcome("weapon", locale, region, "returned",
                 [e \in EntityIdsOf(fetched) |->
                     WeaponEntry(doc, RowOf(fetched, e).item_id).value],
                 [e \in EntityIdsOf(fetched) |->
                     WeaponEntry(doc, RowOf(fetched, e).item_id).keys],
                 1, 1)

\* mutant: rows whose lookup misses are left out of the mapping
get_body_skin_translation_mapping_dropping_misses(backend, locale, region) ==
    IF locale \notin Languages \/ region \notin Regions
    THEN Raised("appearance", locale, region, "NotImplementedError", 0, 0)
    ELSE IF ~ParseOk(locale, "text_armors")
    THEN Raised("appearance", locale, region, "ParseError", 1, 0)
    ELSE LET doc == Parse(locale, "text_armors")
             fetched == {r \in Fetch(region, "appearance") :
                            Found(doc, ArmorPrefix \o r.item_id \o SuffixName)}
         IN  Outcome("appearance", locale, region, "returned",
                 [e \in EntityIdsOf(fetched) |->
                     BodySkinEntry(doc, RowOf(fetched, e).item_id).value],
                 [e \in EntityIdsOf(fetched) |->
                     BodySkinEntry(doc, RowOf(fetched, e).item_id).keys],
                 1, 1)

get_body_skin_translation_mapping(backend, locale, region) ==
    IF locale \notin Languages \/ region \notin Regions
    THEN Raised("appearance", locale, region, "NotImplementedError", 0, 0)
    ELSE IF ~ParseOk(locale, "text_armors")
    THEN Raised("appearance", locale, region, "ParseError", 1, 0)
    ELSE LET doc == Parse(locale, "text_armors")
             fetched == Fetch(region, "appearance")
         IN  Outcome("appearance", locale, region, "returned",
                 [e \in EntityIdsOf(fetched) |->
                     BodySkinEntry(doc, RowOf(fetched, e).item_id).value],
                 [e \in EntityIdsOf(fetched) |->
                     BodySkinEntry(doc, RowOf(fetched, e).item_id).keys],
                 1, 1)

\* The guard of this builder tests the locale alone and returns the empty
\* mapping; an unsupported region reaches fetchall() with no query executed,
\* which yields no rows on sqlite3 and raises on psycopg2.
get_gear_translation_mapping(backend, locale, region) ==
    IF locale \notin Languages
    THEN Outcome("equipment", locale, region, "returned",
                 EmptyMapping, EmptyMapping, 0, 0)
    ELSE IF ~ParseOk(locale, "text_armors")
    THEN Raised("equipment", locale, region, "ParseError", 1, 0)
    ELSE IF region \notin Regions
    THEN IF backend = "sqlite3"
         THEN Outcome("equipment", locale, region, "returned",
                      EmptyMapping, EmptyMapping, 1, 0)
         ELSE Raised("equipment", locale, region, "ProgrammingError", 1, 0)
    ELSE LET doc == Parse(locale, "text_armors")
             fetched == Fetch(region, "equipment")
         IN  Outcome("equipment", locale, region, "returned",
                 [e \in EntityIdsOf(fetched) |->
                     GearEntry(doc, RowOf(fetched, e).item_id).value],
                 [e \in EntityIdsOf(fetched) |->
                     GearEntry(doc, RowOf(fetched, e).item_id).keys],
                 1, 1)

----------------------------------------------------------------------------
(* The catalog writer *)

\* UPDATE <table> SET <column> = translation WHERE entity_id = entity_id
\* mutant: the UPDATE has no WHERE clause
SetTitleEnEveryRow(tables, table, translation, entity_id) ==
    [tables EXCEPT ![table] = { [r EXCEPT !.title_en = translation] : r \in @ }]

SetTitleEn(tables, table, translation, entity_id) ==
    [tables EXCEPT ![table] =
        { IF r.entity_id = entity_id THEN [r EXCEPT !.title_en = translation] ELSE r : r \in @ }]

SetTitleCn(tables, table, translation, entity_id) ==
    [tables EXCEPT ![table] =
        { IF r.entity_id = entity_id THEN [r EXCEPT !.title_cn = translation] ELSE r : r \in @ }]

\* mutant: both regions write to table items
UpdateStatementOneTable(tables, entity_id, translation, locale, region) ==
    IF region = "eu" \/ region = "ru"
    THEN IF locale = "en" THEN SetTitleEn(tables, "items", translation, entity_id)
         ELSE IF locale = "cn" THEN SetTitleCn(tables, "items", translation, entity_id)
         ELSE tables
    ELSE tables

\* the statement chosen by region and locale; both cursor types run the
\* same four statements, with their own placeholder syntax
UpdateStatement(tables, entity_id, translation, locale, region) ==
    IF region = "eu"
    THEN IF locale = "en" THEN SetTitleEn(tables, "items", translation, entity_id)
         ELSE IF locale = "cn" THEN SetTitleCn(tables, "items", translation, entity_id)
         ELSE tables
    ELSE IF region = "ru"
    THEN IF locale = "en" THEN SetTitleEn(tables, "items_ru", translation, entity_id)
         ELSE IF locale = "cn" THEN SetTitleCn(tables, "items_ru", translation, entity_id)
         ELSE tables
    ELSE tables

\* mutant: an empty translation is not written
update_item_translation_skipping_empty(tables, backend, entity_id, translation, locale, region) ==
    IF locale \notin Languages \/ region \notin Regions
    THEN [outcome |-> "NotImplementedError", tables |-> tables]
    ELSE IF translation = EmptyStr
    THEN [outcome |-> "returned", tables |-> tables]
    ELSE [outcome |-> "returned",
          tables |-> UpdateStatement(tables, entity_id, translation, locale, region)]

\* the tables after the call, and how the call ended
update_item_translation(tables, backend, entity_id, translation, locale, region) ==
    IF locale \notin Languages \/ region \notin Regions
    THEN [outcome |-> "NotImplementedError", tables |-> tables]
    ELSE IF backend = "sqlite3"
    THEN [outcome |-> "returned",
          tables |-> UpdateStatement(tables, entity_id, translation, locale, region)]
    ELSE IF backend = "psql"
    THEN [outcome |-> "returned",
          tables |-> UpdateStatement(tables, entity_id, translation, locale, region)]
    ELSE [outcome |-> "returned", tables |-> tables]

----------------------------------------------------------------------------
(* Initial states: a catalog and the localization files *)

ItemIds == { <<"a", "k">>,
             <<"a", "k", "_", "c">>,
             <<"a", "k", "_", "s", "h", "o", "p">> }
EntityIds == {101, 202}

NULL == <<"NULL">>
OldTitle == <<"o", "l", "d">>

Row(entity_id, item_id, kind) ==
    [entity_id |-> entity_id, item_id |-> item_id, kind |-> kind,
     entity_type |-> "inventory", title_original |-> item_id,
     title_en |-> OldTitle, title_cn |-> NULL]

\* the keys the documents of a family may hold: the two key forms of every
\* item_id in the weapons document, the armor key of every item_id in the
\* armor document
KeysOf(family) ==
    IF family = "text_weapons"
    THEN {i \o SuffixName : i \in ItemIds} \cup {i \o SuffixShopName : i \in ItemIds}
    ELSE {ArmorPrefix \o i \o SuffixName : i \in ItemIds}

Document(locale, keys) == [exists |-> TRUE, entries |-> [k \in keys |-> Value(locale, k)]]
MissingFile == [exists |-> FALSE, entries |-> NoEntries]

\* the tables holding one row in each slot (table, entity_id) of slots:
\* entity_id is unique within a table
CatalogsOn(slots, contents) ==
    { [t \in Tables |-> { Row(s[2], f[s][1], f[s][2]) : s \in {x \in slots : x[1] = t} }] :
        f \in [slots -> contents] }

\* the catalogs of at most n rows, each row's (item_id, kind) in contents
CatalogsWith(n, contents) ==
    UNION { CatalogsOn(slots, contents) :
                slots \in {S \in SUBSET (Tables \X EntityIds) : Cardinality(S) <= n} }

Catalogs(n) == CatalogsWith(n, ItemIds \X Kinds)

\* both locales translate the keys held[family], each to its own text
FilesHolding(held) ==
    [l \in Languages |-> [f \in Families |-> Document(l, held[f])]]

AllKeys == [f \in Families |-> KeysOf(f)]

\* the documents that leave one item untranslated: they hold no key made
\* from its item_id
Untranslated == <<"a", "k", "_", "c">>
KeysButUntranslated ==
    [f \in Families |->
        KeysOf(f) \ {Untranslated \o SuffixName, Untranslated \o SuffixShopName,
                     ArmorPrefix \o Untranslated \o SuffixName}]

\* A catalog of one row at most with any document of one family; a catalog
\* of MaxRows rows at most with the documents that leave one item
\* untranslated; a catalog of one row at most with one file missing.
InitCatalog ==
    \/ /\ db \in Catalogs(1)
       /\ \E family \in Families, keys \in SUBSET (KeysOf("text_weapons") \cup KeysOf("text_armors")) :
             /\ keys \subseteq KeysOf(family)
             /\ files = FilesHolding([AllKeys EXCEPT ![family] = keys])
    \/ /\ db \in Catalogs(MaxRows)
       /\ files = FilesHolding(KeysButUntranslated)
    \/ /\ db \in Catalogs(1)
       /\ \E l \in Languages, f \in Families :
             files = [FilesHolding(AllKeys) EXCEPT ![l][f] = MissingFile]

NoCall == Raised("none", "none", "none", "none", 0, 0)
NoUpdate == [entity_id |-> 0, translation |-> EmptyStr, locale |-> "none",
             region |-> "none", outcome |-> "none"]

Start ==
    /\ committed = db
    /\ ret = NoCall
    /\ upd = NoUpdate
    /\ pc = "idle"
    /\ ri = 1
    /\ li = 1
    /\ mappings = <<>>
    /\ log = <<>>

Init == InitCatalog /\ Start

----------------------------------------------------------------------------
(* Direct calls of the mapping builders: a caller calls one builder, then  *)
(* takes the result.  The builders read db and files and write neither.    *)

mainVars == <<ri, li, mappings, log>>

CallCamouflage ==
    \E backend \in Backends, locale \in CallLocales, region \in CallRegions :
        /\ pc = "idle"
        /\ ret' = get_camouflage_translation_mapping(backend, locale, region)
        /\ pc' = "called"
        /\ UNCHANGED <<db, committed, files, upd, mainVars>>

CallWeapon ==
    \E backend \in Backends, locale \in CallLocales, region \in CallRegions :
        /\ pc = "idle"
        /\ ret' = get_weapon_translation_mapping(backend, locale, region)
        /\ pc' = "called"
        /\ UNCHANGED <<db, committed, files, upd, mainVars>>

CallBodySkin ==
    \E backend \in Backends, locale \in CallLocales, region \in CallRegions :
        /\ pc = "idle"
        /\ ret' = get_body_skin_translation_mapping(backend, locale, region)
        /\ pc' = "called"
        /\ UNCHANGED <<db, committed, files, upd, mainVars>>

CallGear ==
    \E backend \in Backends, locale \in CallLocales, region \in CallRegions :
        /\ pc = "idle"
        /\ ret' = get_gear_translation_mapping(backend, locale, region)
        /\ pc' = "called"
        /\ UNCHANGED <<db, committed, files, upd, mainVars>>

\* the caller is done with the result of its call
Return ==
    /\ pc = "called"
    /\ pc' = "idle"
    /\ ret' = NoCall
    /\ upd' = NoUpdate
    /\ UNCHANGED <<db, committed, files, mainVars>>

Next == CallCamouflage \/ CallWeapon \/ CallBodySkin \/ CallGear \/ Return

Spec == Init /\ [][Next]_vars

----------------------------------------------------------------------------
(* Direct calls of update_item_translation *)

\* an entity_id that no table holds
UnknownEntityIds == {303}
Translations == {EmptyStr, <<"T">>}

CallUpdate ==
    \E backend \in Backends, entity_id \in EntityIds \cup UnknownEntityIds,
       translation \in Translations, locale \in CallLocales, region \in CallRegions :
        LET r == update_item_translation(db, backend, entity_id, translation, locale, region)
        IN  /\ pc = "idle"
            /\ db' = r.tables
            /\ upd' = [entity_id |-> entity_id, translation |-> translation,
                       locale |-> locale, region |-> region, outcome |-> r.outcome]
            /\ pc' = "called"
            /\ UNCHANGED <<committed, files, ret, mainVars>>

\* update_item_translation reads neither the files nor a row's item_id or
\* kind: one sort of row and the full documents are enough
UpdateInit ==
    /\ db \in CatalogsWith(MaxRows, { << <<"a", "k">>, "weapon" >> })
    /\ files = FilesHolding(AllKeys)
    /\ Start

UpdateNext == CallUpdate \/ Return

UpdateSpec == UpdateInit /\ [][UpdateNext]_vars

----------------------------------------------------------------------------
(* The translation loop of main (lines 330 to 344), entered with the       *)
(* title columns in place.  An exception that main does not catch ends the *)
(* process: the connection is dropped and its uncommitted updates are      *)
(* rolled back.  ET.parse raises on a missing file; any statement of a     *)
(* pass may raise as well (the database is locked, the connection is lost).*)

Region == SUPPORTED_REGIONS[ri]
Language == SUPPORTED_LANGUAGES[li]

Without(mapping, k) == [x \in (DOMAIN mapping) \ {k} |-> mapping[x]]

MainStart ==
    /\ pc = "idle"
    /\ pc' = "camouflage"
    /\ ri' = 1
    /\ li' = 1
    /\ mappings' = <<>>
    /\ UNCHANGED <<db, committed, files, ret, upd, log>>

\* one builder call of the pass: its mapping joins the list, or its
\* exception ends main
Built(r, next) ==
    IF r.outcome = "returned"
    THEN /\ mappings' = Append(mappings, r.mapping)
         /\ pc' = next
         /\ UNCHANGED <<db, committed, files, ret, upd, ri, li, log>>
    ELSE /\ pc' = "failed"
         /\ db' = committed
         /\ mappings' = <<>>
         /\ UNCHANGED <<committed, files, ret, upd, ri, li, log>>

MainCamouflage ==
    /\ pc = "camouflage"
    /\ \E backend \in Backends :
          Built(get_camouflage_translation_mapping(backend, Language, Region), "weapon")

MainWeapon ==
    /\ pc = "weapon"
    /\ \E backend \in Backends :
          Built(get_weapon_translation_mapping(backend, Language, Region), "appearance")

MainBodySkin ==
    /\ pc = "appearance"
    /\ \E backend \in Backends :
          Built(get_body_skin_translation_mapping(backend, Language, Region), "equipment")

MainGear ==
    /\ pc = "equipment"
    /\ \E backend \in Backends :
          Built(get_gear_translation_mapping(backend, Language, Region), "update")

\* the mapping whose items are being written: the first one not exhausted
Current == CHOOSE i \in 1..Len(mappings) :
               /\ DOMAIN mappings[i] # {}
               /\ \A j \in 1..(i - 1) : DOMAIN mappings[j] = {}

AllWritten == \A i \in 1..Len(mappings) : DOMAIN mappings[i] = {}

\* update_item_translation(connection, k, v[1], locale=language, region=region)
\* for the next item of the current mapping, in the order of the fetch
MainUpdate ==
    /\ pc = "update"
    /\ ~AllWritten
    /\ \E backend \in Backends, k \in DOMAIN mappings[Current] :
          /\ db' = update_item_translation(db, backend, k, mappings[Current][k][2],
                                           Language, Region).tables
          /\ mappings' = [mappings EXCEPT ![Current] = Without(@, k)]
    /\ UNCHANGED <<committed, files, ret, upd, pc, ri, li, log>>

\* the end of the body of the language loop
MainEndPass ==
    /\ pc = "update"
    /\ AllWritten
    /\ log' = Append(log, <<"pass", Region, Language>>)
    /\ mappings' = <<>>
    /\ IF li < Len(SUPPORTED_LANGUAGES)
       THEN li' = li + 1 /\ pc' = "camouflage"
       ELSE li' = li /\ pc' = "commit"
    /\ UNCHANGED <<db, committed, files, ret, upd, ri>>

\* mutant: the commit is made after the last region only
MainCommitAtEnd ==
    /\ pc = "commit"
    /\ committed' = (IF ri < Len(SUPPORTED_REGIONS) THEN committed ELSE db)
    /\ log' = Append(log, <<"commit", Region>>)
    /\ IF ri < Len(SUPPORTED_REGIONS)
       THEN ri' = ri + 1 /\ li' = 1 /\ pc' = "camouflage"
       ELSE ri' = ri /\ li' = li /\ pc' = "closed"
    /\ UNCHANGED <<db, files, ret, upd, mappings>>

\* connection.commit() after the language loop of a region, then the next
\* region or connection.close()
MainCommit ==
    /\ pc = "commit"
    /\ committed' = db
    /\ log' = Append(log, <<"commit", Region>>)
    /\ IF ri < Len(SUPPORTED_REGIONS)
       THEN ri' = ri + 1 /\ li' = 1 /\ pc' = "camouflage"
       ELSE ri' = ri /\ li' = li /\ pc' = "closed"
    /\ UNCHANGED <<db, files, ret, upd, mappings>>

\* cursor.execute raises in a builder or in update_item_translation
MainError ==
    /\ pc \in {"camouflage", "weapon", "appearance", "equipment", "update"}
    /\ pc' = "failed"
    /\ db' = committed
    /\ mappings' = <<>>
    /\ UNCHANGED <<committed, files, ret, upd, ri, li, log>>

MainNext ==
    \/ MainStart
    \/ MainCamouflage
    \/ MainWeapon
    \/ MainBodySkin
    \/ MainGear
    \/ MainUpdate
    \/ MainEndPass
    \/ MainCommit
    \/ MainError

MainSpec == Init /\ [][MainNext]_vars

----------------------------------------------------------------------------
(* Vocabulary of the properties *)

Builders == {"camouflage", "weapon", "appearance", "equipment"}

\* a direct call of a builder has ended
Called(fn) == pc = "called" /\ ret.fn = fn

\* a direct call of a builder with supported selectors returned a mapping
ReturnedFrom(fn) ==
    /\ Called(fn)
    /\ ret.outcome = "returned"
    /\ ret.locale \in Languages
    /\ ret.region \in Regions

WeaponsDoc(locale) == files[locale]["text_weapons"].entries
ArmorDoc(locale) == files[locale]["text_armors"].entries

\* the rows of a kind in the table of a region
RowsOf(region, kind) ==
    {r \in db[IF region = "eu" THEN "items" ELSE "items_ru"] : r.kind = kind}

\* the substring of s before its first underscore (all of s when it has none)
BeforeFirstUnderscore(s) ==
    LET n == CHOOSE m \in 0..Len(s) :
                 /\ \A j \in 1..m : s[j] # "_"
                 /\ (m = Len(s) \/ s[m + 1] = "_")
    IN  SubSeq(s, 1, n)

\* the text under a key, or the empty string when the key is absent
TextOrEmpty(doc, key) == IF key \in DOMAIN doc THEN doc[key] ELSE EmptyStr

VariantKey(item_id) == item_id \o SuffixName
BaseKey(item_id) == BeforeFirstUnderscore(item_id) \o SuffixShopName
ArmorKey(item_id) == ArmorPrefix \o item_id \o SuffixName

----------------------------------------------------------------------------
(* C1: every builder called with a locale outside {en, cn} or a region     *)
(* outside {eu, ru} ends in the unsupported-selector error, having parsed  *)
(* no document and executed no query.                                      *)
C1_UnsupportedSelectorFailsFast ==
    \A fn \in Builders :
        (Called(fn) /\ (ret.locale \notin Languages \/ ret.region \notin Regions))
            => /\ ret.outcome = "NotImplementedError"
               /\ ret.parses = 0
               /\ ret.fetches = 0

(* C2: a camouflage row whose variant key item_id + "_name" is present is  *)
(* mapped to [item_id, base + " " + variant], base being the text under    *)
(* (item_id before its first underscore) + "_shop_name" or the empty       *)
(* string when that key is absent.                                         *)
C2_CamouflageHit ==
    ReturnedFrom("camouflage") =>
        \A r \in RowsOf(ret.region, "camouflage") :
            LET doc == WeaponsDoc(ret.locale)
            IN  VariantKey(r.item_id) \in DOMAIN doc =>
                    /\ r.entity_id \in DOMAIN ret.mapping
                    /\ ret.mapping[r.entity_id] =
                           <<r.item_id,
                             TextOrEmpty(doc, BaseKey(r.item_id)) \o Space
                                 \o doc[VariantKey(r.item_id)]>>

\* a camouflage hit whose base-weapon key is absent: the name starts with
\* the space
C2_Witness ==
    /\ ReturnedFrom("camouflage")
    /\ \E r \in RowsOf(ret.region, "camouflage") :
          /\ VariantKey(r.item_id) \in DOMAIN WeaponsDoc(ret.locale)
          /\ BaseKey(r.item_id) \notin DOMAIN WeaponsDoc(ret.locale)
          /\ ret.mapping[r.entity_id] =
                 <<r.item_id, Space \o Value(ret.locale, VariantKey(r.item_id))>>

(* C3: a camouflage row whose variant key item_id + "_name" is absent is   *)
(* mapped to the three fields [item_id, "", ""], whether or not the        *)
(* base-weapon key is present.                                             *)
C3_CamouflageMiss ==
    ReturnedFrom("camouflage") =>
        \A r \in RowsOf(ret.region, "camouflage") :
            VariantKey(r.item_id) \notin DOMAIN WeaponsDoc(ret.locale) =>
                /\ r.entity_id \in DOMAIN ret.mapping
                /\ ret.mapping[r.entity_id] = <<r.item_id, EmptyStr, EmptyStr>>

\* a camouflage miss whose base-weapon key is present
C3_Witness ==
    /\ ReturnedFrom("camouflage")
    /\ \E r \in RowsOf(ret.region, "camouflage") :
          /\ VariantKey(r.item_id) \notin DOMAIN WeaponsDoc(ret.locale)
          /\ BaseKey(r.item_id) \in DOMAIN WeaponsDoc(ret.locale)
          /\ Len(ret.mapping[r.entity_id]) = 3

(* C4: a weapon row is resolved by one lookup, of item_id + "_name" when   *)
(* item_id contains "_shop" and of item_id + "_shop_name" otherwise; the   *)
(* mapping holds [item_id, text] when the key is present and [item_id, ""] *)
(* when it is absent, whatever the document holds under the other key form.*)
C4_WeaponSingleLookup ==
    ReturnedFrom("weapon") =>
        \A r \in RowsOf(ret.region, "weapon") :
            LET doc == WeaponsDoc(ret.locale)
                key == IF Contains(r.item_id, ShopMarker)
                       THEN r.item_id \o SuffixName
                       ELSE r.item_id \o SuffixShopName
            IN  /\ r.entity_id \in DOMAIN ret.mapping
                /\ ret.lookups[r.entity_id] = <<key>>
                /\ ret.mapping[r.entity_id] = <<r.item_id, TextOrEmpty(doc, key)>>

\* a weapon miss while the other key form is present: no fallback
C4_Witness ==
    /\ ReturnedFrom("weapon")
    /\ \E r \in RowsOf(ret.region, "weapon") :
          /\ ~Contains(r.item_id, ShopMarker)
          /\ (r.item_id \o SuffixShopName) \notin DOMAIN WeaponsDoc(ret.locale)
          /\ (r.item_id \o SuffixName) \in DOMAIN WeaponsDoc(ret.locale)
          /\ ret.mapping[r.entity_id] = <<r.item_id, EmptyStr>>

(* C5: with supported selectors, gear resolution and body-skin resolution  *)
(* follow one rule: each looks up the single key "ui_armor_" + item_id +   *)
(* "_name" in the armor document, and each yields for a row what the other *)
(* yields for a row of that item_id: [item_id, text] or [item_id, ""].     *)
C5_GearAsBodySkin ==
    /\ ReturnedFrom("equipment") =>
          \A r \in RowsOf(ret.region, "equipment") :
              LET doc == ArmorDoc(ret.locale)
              IN  /\ r.entity_id \in DOMAIN ret.mapping
                  /\ ret.lookups[r.entity_id] = <<ArmorKey(r.item_id)>>
                  /\ ret.mapping[r.entity_id] =
                         <<r.item_id, TextOrEmpty(doc, ArmorKey(r.item_id))>>
                  /\ ret.mapping[r.entity_id] = BodySkinEntry(doc, r.item_id).value
    /\ ReturnedFrom("appearance") =>
          \A r \in RowsOf(ret.region, "appearance") :
              LET doc == ArmorDoc(ret.locale)
              IN  /\ r.entity_id \in DOMAIN ret.mapping
                  /\ ret.lookups[r.entity_id] = <<ArmorKey(r.item_id)>>
                  /\ ret.mapping[r.entity_id] =
                         <<r.item_id, TextOrEmpty(doc, ArmorKey(r.item_id))>>
                  /\ ret.mapping[r.entity_id] = GearEntry(doc, r.item_id).value

\* a gear row resolved to the text of its armor key
C5_Witness ==
    /\ ReturnedFrom("equipment")
    /\ \E r \in RowsOf(ret.region, "equipment") :
          /\ ArmorKey(r.item_id) \in DOMAIN ArmorDoc(ret.locale)
          /\ ret.mapping[r.entity_id] =
                 <<r.item_id, Value(ret.locale, ArmorKey(r.item_id))>>

(* C6: with supported selectors, the keys of the mapping a builder returns *)
(* are exactly the entity_ids of the rows of its kind in the table of the  *)
(* region; a row whose lookup misses is in the mapping, with an empty      *)
(* display name.                                                           *)
C6_KeysAreFetchedEntityIds ==
    \A fn \in Builders :
        ReturnedFrom(fn) =>
            /\ DOMAIN ret.mapping = {r.entity_id : r \in RowsOf(ret.region, fn)}
            /\ \A r \in RowsOf(ret.region, fn) :
                  ret.lookups[r.entity_id][1] \notin
                          DOMAIN files[ret.locale][IF fn \in {"camouflage", "weapon"}
                                                   THEN "text_weapons"
                                                   ELSE "text_armors"].entries
                      => ret.mapping[r.entity_id][2] = EmptyStr

\* two fetched rows, one of them a miss, both in the mapping
C6_Witness ==
    /\ ReturnedFrom("appearance")
    /\ Cardinality(DOMAIN ret.mapping) = 2
    /\ \E e \in DOMAIN ret.mapping : ret.mapping[e][2] = EmptyStr

(* C7: update_item_translation with a supported locale and region sets     *)
(* column title_<locale> of the row with that entity_id in the table of    *)
(* the region (items for eu, items_ru for ru) and nothing else: the other  *)
(* title column, the other rows of the table and the other table are as    *)
(* before; when no row has the entity_id the catalog is unchanged, and the *)
(* call returns without an error.                                          *)
TitleOf(r, locale) == IF locale = "en" THEN r.title_en ELSE r.title_cn
OtherTitleOf(r, locale) == IF locale = "en" THEN r.title_cn ELSE r.title_en
SameButTitles(r, q) ==
    /\ q.entity_id = r.entity_id
    /\ q.item_id = r.item_id
    /\ q.kind = r.kind
    /\ q.entity_type = r.entity_type
    /\ q.title_original = r.title_original

UpdateEffect ==
    LET table == IF upd'.region = "eu" THEN "items" ELSE "items_ru"
        other == IF upd'.region = "eu" THEN "items_ru" ELSE "items"
    IN  /\ upd'.outcome = "returned"
        /\ db'[other] = db[other]
        /\ Cardinality(db'[table]) = Cardinality(db[table])
        /\ \A r \in db[table] :
              IF r.entity_id = upd'.entity_id
              THEN \E q \in db'[table] :
                      /\ SameButTitles(r, q)
                      /\ TitleOf(q, upd'.locale) = upd'.translation
                      /\ OtherTitleOf(q, upd'.locale) = OtherTitleOf(r, upd'.locale)
              ELSE r \in db'[table]
        /\ (\A r \in db[table] : r.entity_id # upd'.entity_id) => db' = db

C7_UpdateWritesOneCell ==
    [][(pc = "idle" /\ pc' = "called"
            /\ upd'.locale \in Languages /\ upd'.region \in Regions)
          => UpdateEffect]_vars

\* an update of one of two rows of a table: the row has the translation,
\* the other row and the other column have what they had
C7_Witness ==
    /\ pc = "called"
    /\ upd.outcome = "returned"
    /\ upd.locale = "cn"
    /\ upd.region = "ru"
    /\ \E r \in db["items_ru"], q \in db["items_ru"] :
          /\ r.entity_id = upd.entity_id
          /\ r.title_cn = upd.translation
          /\ r.title_en = OldTitle
          /\ q.entity_id # upd.entity_id
          /\ q.title_cn = NULL

\* an update of an entity_id that no row has
C7_WitnessNoRow ==
    /\ pc = "called"
    /\ upd.outcome = "returned"
    /\ \A t \in Tables : \A r \in db[t] : r.entity_id # upd.entity_id
    /\ db = committed
    /\ db["items"] # {}

----------------------------------------------------------------------------
(* Vocabulary of the properties of main *)

\* the display name a row of a kind resolves to in a locale: v[1] of the
\* list its builder stores
DisplayName(kind, locale, item_id) ==
    IF kind = "camouflage" THEN CamouflageEntry(WeaponsDoc(locale), item_id).value[2]
    ELSE IF kind = "weapon" THEN WeaponEntry(WeaponsDoc(locale), item_id).value[2]
    ELSE IF kind = "appearance" THEN BodySkinEntry(ArmorDoc(locale), item_id).value[2]
    ELSE GearEntry(ArmorDoc(locale), item_id).value[2]

\* the key whose absence makes the lookup of a row a miss
DecidingKey(kind, item_id) ==
    IF kind = "camouflage" THEN item_id \o SuffixName
    ELSE IF kind = "weapon"
    THEN (IF Contains(item_id, ShopMarker) THEN item_id \o SuffixName
          ELSE item_id \o SuffixShopName)
    ELSE ArmorPrefix \o item_id \o SuffixName

DocOf(kind, locale) ==
    IF kind \in {"camouflage", "weapon"} THEN WeaponsDoc(locale) ELSE ArmorDoc(locale)

\* in tables, the rows of the region hold their display names of the locale
PassWritten(tables, region, locale) ==
    \A r \in tables[IF region = "eu" THEN "items" ELSE "items_ru"] :
        r.kind \in TranslatedKinds =>
            TitleOf(r, locale) = DisplayName(r.kind, locale, r.item_id)

\* the passes main has completed
PassesDone == {<<log[i][2], log[i][3]>> : i \in {j \in 1..Len(log) : log[j][1] = "pass"}}
\* the regions main has committed
RegionsCommitted == {log[i][2] : i \in {j \in 1..Len(log) : log[j][1] = "commit"}}

InPass == pc \in {"camouflage", "weapon", "appearance", "equipment", "update"}

(* C8, as stated: commits are per (locale, region) pass.  The updates of  *)
(* a completed pass are committed before the next pass fetches anything:   *)
(* when a pass starts building its mappings the tables hold no uncommitted *)
(* update, and when a pass fails the tables keep the display names that    *)
(* every completed pass wrote.                                             *)
C8_CommitPerPass ==
    /\ pc \in {"camouflage", "weapon", "appearance", "equipment"} => committed = db
    /\ pc = "failed" =>
          \A p \in PassesDone : PassWritten(db, p[1], p[2])

\* the events of a complete run: the passes of a region in the order of
\* SUPPORTED_LANGUAGES, then the commit of the region
EventsOfRegion(region) ==
    [i \in 1..(Len(SUPPORTED_LANGUAGES) + 1) |->
        IF i <= Len(SUPPORTED_LANGUAGES)
        THEN <<"pass", region, SUPPORTED_LANGUAGES[i]>>
        ELSE <<"commit", region>>]

EventsOfRun == EventsOfRegion(SUPPORTED_REGIONS[1]) \o EventsOfRegion(SUPPORTED_REGIONS[2])

(* C8, amended: commits are per region.  The passes of all locales of a    *)
(* region are completed, then one commit is made for the region, and that  *)
(* commit is made before the first pass of the next region fetches or      *)
(* updates anything; when a pass fails, the tables keep the display names  *)
(* written by the passes of the regions committed before.                  *)
C8_CommitPerRegion ==
    /\ Len(log) <= Len(EventsOfRun)
    /\ log = SubSeq(EventsOfRun, 1, Len(log))
    /\ (InPass \/ pc = "failed") =>
          \A p \in PassesDone : p[1] # Region => p[1] \in RegionsCommitted
    /\ (pc \in {"camouflage", "weapon", "appearance", "equipment"} /\ li = 1) =>
          committed = db
    /\ pc = "failed" =>
          \A p \in PassesDone :
              p[1] \in RegionsCommitted => PassWritten(db, p[1], p[2])

\* a pass of the second region fails after the first region was committed:
\* a row of the first region keeps the display names written to it
C8_Witness ==
    /\ pc = "failed"
    /\ ri = 2
    /\ RegionsCommitted = {"eu"}
    /\ \E r \in db["items"] :
          /\ r.kind \in TranslatedKinds
          /\ r.title_en # OldTitle
          /\ r.title_cn # NULL
    /\ db["items_ru"] # {}

(* C9: when main has run to completion, every row of kind weapon,          *)
(* camouflage, appearance or equipment of either region holds in           *)
(* title_<locale>, for both locales, the display name resolved for it; a   *)
(* row whose lookup misses holds the empty string, whatever it held.       *)
C9_TitlesAreDisplayNames ==
    pc = "closed" =>
        \A region \in Regions, locale \in Languages :
            /\ PassWritten(db, region, locale)
            /\ PassWritten(committed, region, locale)
            /\ \A r \in db[IF region = "eu" THEN "items" ELSE "items_ru"] :
                  (/\ r.kind \in TranslatedKinds
                   /\ DecidingKey(r.kind, r.item_id) \notin DOMAIN DocOf(r.kind, locale))
                      => TitleOf(r, locale) = EmptyStr

\* a complete run that overwrote the titles of a row whose lookups miss
\* and wrote the names of a row whose lookups hit
C9_Witness ==
    /\ pc = "closed"
    /\ \E r \in db["items_ru"] :
          /\ r.kind = "weapon"
          /\ r.title_en = EmptyStr
          /\ r.title_cn = EmptyStr
    /\ \E r \in db["items"] :
          /\ r.kind = "camouflage"
          /\ r.title_cn = Value("cn", BaseKey(r.item_id)) \o Space
                             \o Value("cn", VariantKey(r.item_id))

(* C10: with entity_id unique within each table, no step of main changes a *)
(* row of a kind other than weapon, camouflage, appearance and equipment,  *)
(* and no step changes a column other than title_en and title_cn of any    *)
(* row; no row is added or removed.                                        *)
UniqueEntityIds(tables) ==
    \A t \in Tables : \A r \in tables[t], q \in tables[t] :
        r.entity_id = q.entity_id => r = q

OnlyTitlesOfTranslatedKinds ==
    UniqueEntityIds(db) =>
        \A t \in Tables :
            /\ Cardinality(db'[t]) = Cardinality(db[t])
            /\ \A r \in db[t] :
                  /\ \E q \in db'[t] : SameButTitles(r, q)
                  /\ r.kind \notin TranslatedKinds => r \in db'[t]

C10_MainWritesTitlesOnly == [][OnlyTitlesOfTranslatedKinds]_vars

\* a complete run that wrote a title of one row and left the other row of
\* the table, of another kind, as it was
C10_Witness ==
    /\ pc = "closed"
    /\ \E r \in db["items"], q \in db["items"] :
          /\ r.kind \in TranslatedKinds
          /\ r.title_en # OldTitle
          /\ q.kind \notin TranslatedKinds
          /\ q.title_en = OldTitle
          /\ q.title_cn = NULL

====
